---- MODULE Spec2Model ----
(***************************************************************************)
(* NucleationApp.py: one top-to-bottom run of the Streamlit script.  A CSV *)
(* is uploaded, the two window sliders and the nucleation points are set,  *)
(* every column of `columns` is aligned around the nucleation points       *)
(* (get_aligned_stats), a confidence band is derived (ci), and the curves  *)
(* are plotted.                                                            *)
(*                                                                         *)
(* Numbers.  A float is a record [num, den] standing for num/den; the NaN  *)
(* of numpy is 0/0, so that it propagates through the arithmetic as it     *)
(* does in numpy.  A square root (np.nanstd, and every product with it) is *)
(* held as [sqrt_of |-> q], the non-negative root of the rational q.       *)
(* Times are held in milliseconds: time_min = Name/1000/60 is the integer  *)
(* Name read in units of 1/60000 minute, and a time rounded to 2 decimals  *)
(* of a minute is a multiple of 600 ms.  Indices are 0-based as in Python; *)
(* element idx of an array a is a[idx + 1].                                *)
(***************************************************************************)
EXTENDS Integers, Sequences, FiniteSets, TLC

VARIABLES pc, error, df, n_before, n_after, time_min, temperature,
          unique_times, selected_points, n, t_value, col_i, idx_of, results

vars == <<pc, error, df, n_before, n_after, time_min, temperature,
          unique_times, selected_points, n, t_value, col_i, idx_of, results>>

(***************************** bounds of the model *************************)
MaxRows == 16
MaxBeforeSteps == 1
MaxAfterSteps == 1
MaxPoints == 2
GapRow == 7

(***************************** floats **************************************)
NaN == [num |-> 0, den |-> 0]

Float(v) == [num |-> v, den |-> 1]

IsNaN(x) == x.den = 0

Abs(x) == IF x < 0 THEN -x ELSE x

Min(a, b) == IF a < b THEN a ELSE b

Max(a, b) == IF a > b THEN a ELSE b

\* An array held as an evaluated tuple (a numpy array is a value, computed once).
Array(f) == f \o <<>>

RECURSIVE SumSeq(_)
SumSeq(s) == IF s = <<>> THEN 0 ELSE Head(s) + SumSeq(Tail(s))

(***************************** the uploaded CSV ****************************)
columns == << <<"Corrected Temp", "fTemperatureCorrected">>,
              <<"Cylinder Temp", "fCylinderTemperatureActual">>,
              <<"Gas Temp", "fGasTemperatureActual">>,
              <<"Inlet Flow", "fInlet">>,
              <<"Extraction Flow", "fExtraction">> >>

ColumnNames == {columns[k][2] : k \in 1..Len(columns)}

\* The CSV files of the model: `rows` samples, timestamps start + i*period
\* (ms), data cells that differ from row to row and from column to column
\* (a multiplier `seed`), an optional empty cell (read by pandas as NaN) in
\* row `gap`, and an optional missing column.
RowCounts == {0, 1, MaxRows \div 2, MaxRows}

TimeBases == {<<0, 100>>, <<50, 100>>, <<0, 0>>}

Dropped == {{}, {"Name"}, {"fTemperatureCorrected"},
            {"fCylinderTemperatureActual"}}

Contents == {<<1, 0>>, <<2, GapRow>>}

Cell(c, i, seed, gap) ==
    IF i = gap THEN NaN ELSE Float(((i + c) * seed) % 4)

CsvFile(rows, tb, seed, gap, drop) ==
    LET present == {k \in 1..Len(columns) : columns[k][2] \notin drop}
    IN  [Name  |-> IF "Name" \in drop THEN <<>>
                   ELSE [i \in 1..rows |-> tb[1] + (i - 1) * tb[2]],
         has   |-> ({"Name"} \cup ColumnNames) \ drop,
         cells |-> [c \in {columns[k][2] : k \in present} |->
                      LET k == CHOOSE j \in present : columns[j][2] = c
                      IN  [i \in 1..rows |-> Cell(k, i, seed, gap)]]]

NoDf == [Name |-> <<>>, has |-> {}, cells |-> <<>>]

(***************************** Init ****************************************)
Init ==
    /\ pc = "upload"
    /\ error = ""
    /\ df = NoDf
    /\ n_before = 0
    /\ n_after = 0
    /\ time_min = <<>>
    /\ temperature = <<>>
    /\ unique_times = <<>>
    /\ selected_points = <<>>
    /\ n = 0
    /\ t_value = NaN
    /\ col_i = 0
    /\ idx_of = <<>>
    /\ results = <<>>

(***************************** file upload *********************************)
\* uploaded_file is None: st.info, st.stop.
NoFile ==
    /\ pc = "upload"
    /\ pc' = "stopped"
    /\ UNCHANGED <<error, df, n_before, n_after, time_min, temperature,
                   unique_times, selected_points, n, t_value, col_i, idx_of,
                   results>>

\* pd.read_csv raises: st.error, st.stop.
LoadFails ==
    /\ pc = "upload"
    /\ pc' = "stopped"
    /\ error' = "Failed to load file"
    /\ UNCHANGED <<df, n_before, n_after, time_min, temperature,
                   unique_times, selected_points, n, t_value, col_i, idx_of,
                   results>>

Upload ==
    /\ pc = "upload"
    /\ \E rows \in RowCounts, tb \in TimeBases, c \in Contents,
          drop \in Dropped :
          df' = CsvFile(rows, tb, c[1], c[2], drop)
    /\ pc' = "inputs"
    /\ UNCHANGED <<error, n_before, n_after, time_min, temperature,
                   unique_times, selected_points, n, t_value, col_i, idx_of,
                   results>>

(***************************** user inputs *********************************)
n_before_step == 5
n_before_max == 500
n_after_step == 10
n_after_max == 2000
max_possible_points == 10

\* The values the two st.slider widgets can deliver.
BeforeValues == {v \in {k * n_before_step : k \in 0..MaxBeforeSteps} :
                    v <= n_before_max}

AfterValues == {v \in {k * n_after_step : k \in 0..MaxAfterSteps} :
                   v <= n_after_max}

\* Lines 28-35: the sliders, then df['Name'] and df['fTemperatureCorrected'];
\* a column that the CSV lacks raises KeyError and ends the run.
UserInputs ==
    /\ pc = "inputs"
    /\ \E b \in BeforeValues, a \in AfterValues :
          /\ n_before' = b
          /\ n_after' = a
    /\ IF "Name" \notin df.has \/ "fTemperatureCorrected" \notin df.has
       THEN /\ pc' = "exception"
            /\ error' = "KeyError"
            /\ UNCHANGED <<time_min, temperature>>
       ELSE /\ pc' = "points"
            /\ time_min' = df.Name
            /\ temperature' = df.cells["fTemperatureCorrected"]
            /\ UNCHANGED error
    /\ UNCHANGED <<df, unique_times, selected_points, n, t_value, col_i,
                   idx_of, results>>

(***************************** nucleation points ***************************)
\* numpy's rint of num/den (den > 0, num >= 0): halves go to the even side.
Rint(num, den) ==
    LET q == num \div den
        r == num % den
    IN  IF 2 * r < den THEN q
        ELSE IF 2 * r > den THEN q + 1
        ELSE IF q % 2 = 0 THEN q ELSE q + 1

\* np.round(time_min, 2): hundredths of a minute are multiples of 600 ms.
Round2(t) == 600 * Rint(t, 600)

RECURSIVE Sorted(_)
Sorted(S) ==
    IF S = {} THEN <<>>
    ELSE LET m == CHOOSE x \in S : \A y \in S : x <= y
         IN  <<m>> \o Sorted(S \ {m})

UniqueTimes(time) == Sorted({Round2(time[i]) : i \in 1..Len(time)})

\* scipy.stats.t.ppf(0.975, df) in hundredths, df = 1..9; nan for df <= 0.
t_ppf_975 == <<1271, 430, 318, 278, 257, 245, 236, 231, 226>>

TValue_df_n(num) ==
    IF num < 30
    THEN IF num >= 1 /\ num <= Len(t_ppf_975)
         THEN [num |-> t_ppf_975[num], den |-> 100]
         ELSE NaN
    ELSE [num |-> 196, den |-> 100]

TValue(num) ==
    IF num < 30
    THEN IF num - 1 >= 1 /\ num - 1 <= Len(t_ppf_975)
         THEN [num |-> t_ppf_975[num - 1], den |-> 100]
         ELSE NaN
    ELSE [num |-> 196, den |-> 100]

\* Lines 55-76: num_points, one select_slider per point over unique_times
\* (unique_times[min(i, len - 1)] raises IndexError on an empty list), then
\* n and t_value.
DefinePoints ==
    /\ pc = "points"
    /\ LET ut == UniqueTimes(time_min)
       IN  /\ unique_times' = ut
           /\ IF ut = <<>>
              THEN /\ pc' = "exception"
                   /\ error' = "IndexError"
                   /\ UNCHANGED <<selected_points, n, t_value>>
              ELSE /\ \E num_points \in 1..Min(MaxPoints, max_possible_points) :
                      \E sel \in [1..num_points -> 1..Len(ut)] :
                         /\ selected_points' =
                               [i \in 1..num_points |-> <<ut[sel[i]], 0>>]
                         /\ n' = num_points
                         /\ t_value' = TValue(num_points)
                   /\ pc' = "loop"
                   /\ UNCHANGED error
    /\ UNCHANGED <<df, n_before, n_after, time_min, temperature, col_i,
                   idx_of, results>>

(***************************** get_aligned_stats ***************************)
total_len_plus_one(before, after) == before + after + 1

total_len(before, after) == before + after

RECURSIVE argmin_scan_last(_, _, _)
argmin_scan_last(a, i, best) ==
    IF i > Len(a) THEN best
    ELSE argmin_scan_last(a, i + 1, IF a[i] <= a[best] THEN i ELSE best)

\* (np.abs(time_min - x_click)).argmin(): the first index of the minimum.
RECURSIVE argmin_scan(_, _, _)
argmin_scan(a, i, best) ==
    IF i > Len(a) THEN best
    ELSE argmin_scan(a, i + 1, IF a[i] < a[best] THEN i ELSE best)

argmin(a) == argmin_scan(a, 2, 1) - 1

resolve_idx(time, x_click) ==
    argmin(Array([i \in 1..Len(time) |-> Abs(time[i] - x_click)]))

seg_start_unclamped(idx, before) == idx - before

seg_start(idx, before) == Max(0, idx - before)

seg_end(column_data, idx, after) == Min(Len(column_data), idx + after)

\* Python's a[lo:hi]: a negative bound counts from the end, both are clipped.
PySlice(a, lo, hi) ==
    LET clip(x) == IF x < 0 THEN Max(0, x + Len(a)) ELSE Min(x, Len(a))
    IN  IF clip(hi) <= clip(lo) THEN <<>>
        ELSE SubSeq(a, clip(lo) + 1, clip(hi))

pad_left(segment, k) == Array([i \in 1..k |-> NaN]) \o segment

\* np.pad(segment, (0, k), constant_values=np.nan)
pad(segment, k) == segment \o Array([i \in 1..k |-> NaN])

segment_of(column_data, idx, before, after) ==
    LET segment == PySlice(column_data, seg_start(idx, before),
                           seg_end(column_data, idx, after))
    IN  IF Len(segment) < total_len(before, after)
        THEN pad(segment, total_len(before, after) - Len(segment))
        ELSE segment

nanmean_all(xs) ==
    LET tot == SumSeq([k \in 1..Len(xs) |-> IF IsNaN(xs[k]) THEN 0 ELSE xs[k].num])
    IN  [num |-> tot, den |-> Len(xs)]

\* np.nanmean over one position: NaN counts as 0 in the sum and not at all
\* in the count; 0/0 when every value is NaN.
nanmean(xs) ==
    LET tot == SumSeq([k \in 1..Len(xs) |-> IF IsNaN(xs[k]) THEN 0 ELSE xs[k].num])
        cnt == Cardinality({k \in 1..Len(xs) : ~IsNaN(xs[k])})
    IN  IF cnt = 0 THEN NaN ELSE [num |-> tot, den |-> cnt]

\* np.nanstd (ddof = 0): the root of sum((x - avg)^2)/cnt over the non-NaN x,
\* with x - avg = (cnt*x - tot)/cnt.
nanstd(xs) ==
    LET avg == nanmean(xs)
        cnt == avg.den
        sqr == SumSeq([k \in 1..Len(xs) |->
                  IF IsNaN(xs[k]) THEN 0
                  ELSE (cnt * xs[k].num - avg.num) * (cnt * xs[k].num - avg.num)])
    IN  [sqrt_of |-> IF cnt = 0 THEN NaN
                     ELSE [num |-> sqr, den |-> cnt * cnt * cnt]]

\* Axis 0 of the stacked segments at position p (1-based).
AtPosition(aligned_segments, p) ==
    Array([k \in 1..Len(aligned_segments) |-> aligned_segments[k][p]])

get_aligned_stats(column_data) ==
    LET aligned_segments ==
            Array([k \in 1..Len(selected_points) |->
                     segment_of(column_data,
                                resolve_idx(time_min, selected_points[k][1]),
                                n_before, n_after)])
        width == Len(aligned_segments[1])
        mean_curve == Array([p \in 1..width |->
                               nanmean(AtPosition(aligned_segments, p))])
        std_curve == Array([p \in 1..width |->
                              nanstd(AtPosition(aligned_segments, p))])
        sem_curve == std_curve
    IN  [mean |-> mean_curve, sem |-> sem_curve, curves |-> aligned_segments]

\* t_value * sem[p]: the root of t_value^2 * q for sem[p] = sqrt(q).
TimesRoot(t, root) ==
    [sqrt_of |-> IF IsNaN(t) \/ IsNaN(root.sqrt_of) THEN NaN
                 ELSE [num |-> t.num * t.num * root.sqrt_of.num,
                       den |-> t.den * t.den * root.sqrt_of.den]]

\* One bound mean + sign * half; NaN when either part is.
Bound(mean, sign, half) == [mean |-> mean, sign |-> sign, half |-> half]

ci(mean, sem) ==
    << Array([p \in 1..Len(mean) |->
                 Bound(mean[p], -1, TimesRoot(t_value, sem[p]))]),
       Array([p \in 1..Len(mean) |->
                 Bound(mean[p], 1, TimesRoot(t_value, sem[p]))]) >>

(***************************** the results loop ****************************)
\* Lines 111-118, one iteration: df[col] raises KeyError when the CSV lacks
\* the column, and nothing catches it.
ProcessColumn ==
    /\ pc = "loop"
    /\ col_i < Len(columns)
    /\ LET name == columns[col_i + 1][1]
           col  == columns[col_i + 1][2]
       IN  IF col \notin df.has
           THEN /\ pc' = "exception"
                /\ error' = "KeyError"
                /\ UNCHANGED <<col_i, idx_of, results>>
           ELSE LET st == get_aligned_stats(df.cells[col])
                IN  /\ results' =
                          [k \in DOMAIN results \cup {name} |->
                              IF k = name
                              THEN [mean |-> st.mean, sem |-> st.sem,
                                    curves |-> st.curves,
                                    ci |-> ci(st.mean, st.sem)]
                              ELSE results[k]]
                    /\ idx_of' = Array([k \in 1..Len(selected_points) |->
                                    resolve_idx(time_min, selected_points[k][1])])
                    /\ col_i' = col_i + 1
                    /\ UNCHANGED <<pc, error>>
    /\ UNCHANGED <<df, n_before, n_after, time_min, temperature,
                   unique_times, selected_points, n, t_value>>

\* Lines 120-160: both figures read results[label] of all five series.
Plot ==
    /\ pc = "loop"
    /\ col_i = Len(columns)
    /\ pc' = "done"
    /\ UNCHANGED <<error, df, n_before, n_after, time_min, temperature,
                   unique_times, selected_points, n, t_value, col_i, idx_of,
                   results>>

Next ==
    \/ NoFile
    \/ LoadFails
    \/ Upload
    \/ UserInputs
    \/ DefinePoints
    \/ ProcessColumn
    \/ Plot

Spec == Init /\ [][Next]_vars
(***************************** properties **********************************)
ColumnOf(name) == columns[CHOOSE k \in 1..Len(columns) : columns[k][1] = name][2]

SeriesOf(name) == df.cells[ColumnOf(name)]

RECURSIVE SumOver(_, _)
SumOver(S, f) ==
    IF S = {} THEN 0
    ELSE LET k == CHOOSE x \in S : TRUE
         IN  f[k] + SumOver(S \ {k}, f)

AllNaN(s) == \A j \in 1..Len(s) : IsNaN(s[j])

\* The windows of `name` at position p, and the windows that hold a value there.
ValuesAt(name, p) ==
    [k \in 1..Len(results[name].curves) |-> results[name].curves[k][p]]

Present(name, p) ==
    {k \in 1..Len(results[name].curves) : ~IsNaN(results[name].curves[k][p])}

BoundIsNaN(b) == IsNaN(b.mean) \/ IsNaN(b.half.sqrt_of)

\* C1: every window of every processed series has length exactly
\* n_before + n_after, there is one window per reference point, and the mean,
\* SEM and both CI curves of the series have that same length.
C1_WindowLengths ==
    \A name \in DOMAIN results :
        LET r == results[name]
        IN  /\ Len(r.curves) = Len(selected_points)
            /\ \A k \in 1..Len(r.curves) : Len(r.curves[k]) = n_before + n_after
            /\ Len(r.mean) = n_before + n_after
            /\ Len(r.sem) = n_before + n_after
            /\ Len(r.ci[1]) = n_before + n_after
            /\ Len(r.ci[2]) = n_before + n_after

\* A run with two windows of a non-empty length, one cut short by the end of
\* the series and padded, one not padded at all.
C1_Witness ==
    /\ "Gas Temp" \in DOMAIN results
    /\ n = 2
    /\ n_before + n_after = 15
    /\ idx_of[1] + n_after > Len(time_min)
    /\ idx_of[2] >= n_before
    /\ idx_of[2] + n_after <= Len(time_min)

\* C2: with start = max(0, idx - before) and end = min(len(series), idx + after)
\* the window is series[start:end] followed only by NaN up to the length
\* before + after; when idx >= before and idx + after <= len(series) it is
\* series[idx-before : idx+after] itself (also for before = 2, after = 3).
C2_WindowIsSlicePlusPadding ==
    \A name \in DOMAIN results :
        LET series == SeriesOf(name)
        IN  /\ \A k \in 1..Len(results[name].curves) :
                 LET w     == results[name].curves[k]
                     idx   == idx_of[k]
                     start == IF idx - n_before > 0 THEN idx - n_before ELSE 0
                     end   == IF idx + n_after < Len(series)
                              THEN idx + n_after ELSE Len(series)
                 IN  /\ end - start <= Len(w)
                     /\ Len(w) = n_before + n_after
                     /\ \A j \in 1..(end - start) : w[j] = series[start + j]
                     /\ \A j \in (end - start + 1)..Len(w) : w[j] = NaN
                     /\ (idx >= n_before /\ idx + n_after <= Len(series))
                           => w = SubSeq(series, idx - n_before + 1, idx + n_after)
            /\ \A i \in 2..(Len(series) - 3) :
                 segment_of(series, i, 2, 3) = SubSeq(series, i - 1, i + 3)

\* A series with a window cut on the left and padded on the right, and one
\* window that fits the series and has no padding.
C2_Witness ==
    /\ "Cylinder Temp" \in DOMAIN results
    /\ n = 2
    /\ n_before = 5
    /\ n_after = 10
    /\ idx_of[1] < n_before
    /\ idx_of[2] >= n_before
    /\ idx_of[2] + n_after <= Len(time_min)
    /\ ~AllNaN(results["Cylinder Temp"].curves[1])
    /\ Len(SeriesOf("Cylinder Temp")) >= 5

\* C3 as stated: a reference point at index 0 with before = 5 gives a window
\* whose first 5 positions are NaN and whose other positions are
\* series[0:after].
C3_LeftPadded ==
    \A name \in DOMAIN results :
        \A k \in 1..Len(results[name].curves) :
            (idx_of[k] = 0 /\ n_before = 5) =>
                LET w == results[name].curves[k]
                IN  /\ \A j \in 1..5 : IsNaN(w[j])
                    /\ SubSeq(w, 6, Len(w)) = PySlice(SeriesOf(name), 0, n_after)

\* C3 as amended: a reference point at index 0 with before = 5 gives a window
\* that starts with series[0:after] and whose other positions, at least the
\* last 5, are NaN.
C3_RightPadded ==
    \A name \in DOMAIN results :
        \A k \in 1..Len(results[name].curves) :
            (idx_of[k] = 0 /\ n_before = 5) =>
                LET w == results[name].curves[k]
                    head == PySlice(SeriesOf(name), 0, n_after)
                IN  /\ Len(w) >= Len(head) + 5
                    /\ SubSeq(w, 1, Len(head)) = head
                    /\ \A j \in (Len(head) + 1)..Len(w) : w[j] = NaN

\* A reference point at index 0 with before = 5 and after = 10 on a series
\* that has values in its first positions.
C3_Witness ==
    /\ "Corrected Temp" \in DOMAIN results
    /\ n_before = 5
    /\ n_after = 10
    /\ idx_of[1] = 0
    /\ Len(time_min) >= 10
    /\ ~IsNaN(results["Corrected Temp"].curves[1][1])
    /\ ~IsNaN(results["Corrected Temp"].curves[1][10])

\* C4: every reference time resolves to an index of the time axis at which
\* the absolute difference to the reference time is minimal, the lowest such
\* index; time axis 0..9 min and reference 5.0 give index 5 and, for
\* before = after = 2, the window [3,4,5,6].
C4_NearestLowestIndex ==
    /\ \A k \in 1..Len(idx_of) :
          LET x == selected_points[k][1]
              i == idx_of[k]
          IN  /\ i \in 0..(Len(time_min) - 1)
              /\ \A j \in 1..Len(time_min) :
                    Abs(time_min[j] - x) >= Abs(time_min[i + 1] - x)
              /\ \A j \in 1..i :
                    Abs(time_min[j] - x) > Abs(time_min[i + 1] - x)
    /\ resolve_idx([j \in 1..10 |-> (j - 1) * 60000], 5 * 60000) = 5
    /\ segment_of([j \in 1..10 |-> Float(j - 1)], 5, 2, 2)
          = <<Float(3), Float(4), Float(5), Float(6)>>

\* A reference time that is no sample time and lies midway between two
\* samples, resolved to the earlier one.
C4_Witness ==
    /\ Len(idx_of) = 2
    /\ LET x == selected_points[2][1]
           i == idx_of[2]
       IN  /\ i >= 1
           /\ i + 2 <= Len(time_min)
           /\ time_min[i + 1] < x
           /\ Abs(time_min[i + 2] - x) = Abs(time_min[i + 1] - x)

\* C5: at every position the SEM curve is the population standard deviation
\* of the values present there divided by sqrt(n), n the number of
\* reference points: sem^2 * n = variance.
C5_SemDividedBySqrtN ==
    \A name \in DOMAIN results :
        \A p \in 1..Len(results[name].sem) :
            LET S   == Present(name, p)
                c   == Cardinality(S)
                xs  == ValuesAt(name, p)
                s1  == SumOver(S, [k \in S |-> xs[k].num])
                s2  == SumOver(S, [k \in S |-> xs[k].num * xs[k].num])
                sem == results[name].sem[p].sqrt_of
            IN  IF S = {} THEN IsNaN(sem)
                ELSE /\ ~IsNaN(sem)
                     /\ sem.num * n * c * c = (c * s2 - s1 * s1) * sem.den

\* C6: at every position the mean curve is the sum of the values present
\* there divided by their number, and it is NaN exactly when no window has
\* a value there.
C6_MeanOfPresent ==
    \A name \in DOMAIN results :
        \A p \in 1..Len(results[name].mean) :
            LET S  == Present(name, p)
                xs == ValuesAt(name, p)
                m  == results[name].mean[p]
            IN  /\ IsNaN(m) <=> S = {}
                /\ S # {} =>
                      m.num * Cardinality(S)
                         = m.den * SumOver(S, [k \in S |-> xs[k].num])

\* A position where one window holds a value other than 0 and the other
\* only padding, and a position where both are padding.
C6_Witness ==
    /\ "Inlet Flow" \in DOMAIN results
    /\ n = 2
    /\ \E p \in 1..Len(results["Inlet Flow"].mean) :
          /\ Cardinality(Present("Inlet Flow", p)) = 1
          /\ results["Inlet Flow"].mean[p].num > 0
    /\ \E p \in 1..Len(results["Inlet Flow"].mean) :
          /\ Present("Inlet Flow", p) = {}
          /\ IsNaN(results["Inlet Flow"].mean[p])

\* C7: with exactly one reference point a run that ends without an error
\* hands no NaN confidence bound to the plots where the mean is a number.
C7_NoSilentNaNBounds ==
    (n = 1 /\ pc = "done" /\ error = "") =>
        \A name \in DOMAIN results :
            \A p \in 1..Len(results[name].mean) :
                ~IsNaN(results[name].mean[p]) =>
                    /\ ~BoundIsNaN(results[name].ci[1][p])
                    /\ ~BoundIsNaN(results[name].ci[2][p])

\* C8: a result bundle exists only for a run with a non-empty time axis, a
\* non-empty list of reference points and before + after > 0.
C8_InvalidShapeRejected ==
    DOMAIN results # {} =>
        /\ Len(time_min) > 0
        /\ Len(selected_points) > 0
        /\ n_before + n_after > 0

\* C9: when a run that entered the results loop has ended, every requested
\* series whose column is in the dataset has its result, whatever other
\* column is missing.
C9_OtherSeriesStillProcessed ==
    (pc \in {"done", "exception"} /\ selected_points # <<>>) =>
        \A k \in 1..Len(columns) :
            columns[k][2] \in df.has => columns[k][1] \in DOMAIN results

\* Student's t quantile 0.995 in hundredths, df = 1..9, and the critical
\* value of a confidence level (in percent) as C10 states it.
t_ppf_995 == <<6366, 992, 584, 460, 403, 371, 350, 336, 325>>

criticalValue(num, level) ==
    IF num < 30
    THEN [num |-> (IF level = 95 THEN t_ppf_975 ELSE t_ppf_995)[num - 1],
          den |-> 100]
    ELSE [num |-> IF level = 95 THEN 196 ELSE 258, den |-> 100]

====
